---- MODULE Spec2Model ----
(***************************************************************************)
(* Fee-splitting ledger contract (src/src/contract.rs, src/src/state.rs).  *)
(* Storage is the item State (STATE in the source, a reserved word here)   *)
(* and the map BALANCES keyed by (Addr, denom); each entry point is one    *)
(* action that runs the whole handler on the storage.  Uint128 is          *)
(* modelled with AmountBits bits.                                          *)
(***************************************************************************)
EXTENDS Integers, Sequences, FiniteSets, TLC

\* ---------------------------------------------------------------- bounds
AmountBits == 4          \* width of the amount type (Uint128 in the source)
MaxOps == 3              \* calls made on one storage

UintMax == 2^AmountBits - 1

Addrs == {"creator", "account1", "account2"}
Denoms == {"usei", "wei"}
\* inputs of the calls
InstantiateSenders == {"creator", "account1"}
FeeChoices == {0, 10, 100, 101}
SendSenders == {"account2"}
Coin(d, a) == [denom |-> d, amount |-> a]
FundsChoices ==
    { << >>,
      <<Coin("usei", 10)>>,
      <<Coin("wei", 7)>>,
      <<Coin("wei", UintMax)>>,
      <<Coin("usei", 10), Coin("wei", 7)>>,
      <<Coin("usei", 10), Coin("usei", 10)>> }
WithdrawAmounts == {4, UintMax}
Keys == Addrs \X Denoms

\* ------------------------------------------------------- Option, Uint128
None == << >>
Some(x) == <<x>>
unwrap_or_default(opt) == IF opt = None THEN 0 ELSE opt[1]

checked_add(a, b) == IF a + b > UintMax THEN None ELSE Some(a + b)
checked_sub(a, b) == IF b > a THEN None ELSE Some(a - b)
\* mutant: the product is taken in the amount type and wraps
multiply_ratio_wrapping(a, num, den) ==
    IF den = 0 THEN None ELSE Some(((a * num) % (UintMax + 1)) \div den)
\* Uint128::multiply_ratio: full-width product, then the quotient must fit
multiply_ratio(a, num, den) ==
    IF den = 0 \/ (a * num) \div den > UintMax THEN None
    ELSE Some((a * num) \div den)
shr(a, n) == a \div (2^n)

\* ------------------------------------------------------------ cw-storage
may_load(map, k) == IF k \in DOMAIN map THEN Some(map[k]) ELSE None
save(map, k, v) == [x \in DOMAIN map \cup {k} |-> IF x = k THEN v ELSE map[x]]
addr_validate(a) == a \in Addrs

VARIABLES
    State,        \* the STATE item, Option<State>: None before instantiate
    BALANCES,     \* stored entries of the balance map
    CONTRACT,     \* cw2 contract info item
    res,          \* the last call and its result
    nOps,         \* calls made so far
    deposited,    \* per denom: funds of the Sends that returned Ok
    withdrawn,    \* per denom: amount carried by the emitted BankMsg::Send
    credits,      \* per key: credits applied by Send
    debits        \* per key: debits applied by Withdraw / WithdrawAll

vars == <<State, BALANCES, CONTRACT, res, nOps, deposited, withdrawn, credits, debits>>
ghost == <<deposited, withdrawn, credits, debits>>

\* The record kept of a call: its inputs and what it returned.
NoCall ==
    [op |-> "none", sender |-> "", status |-> "Ok", error |-> "",
     fees |-> 0, amount |-> 0, denom |-> "", account1 |-> "", account2 |-> "",
     funds |-> << >>, balance |-> 0, requested |-> 0, messages |-> << >>,
     owner |-> "", value |-> 0]

\* state.rs:8-18  what the two storage items hold
TypeOK ==
    /\ State \in {None} \cup {Some(st) : st \in [owner : Addrs, fees : 0..255]}
    /\ DOMAIN BALANCES \subseteq Keys
    /\ \A k \in DOMAIN BALANCES : BALANCES[k] \in 0..UintMax
    /\ CONTRACT \in {None, Some("crates.io:transfer-contract")}
    /\ res.status \in {"Ok", "Err", "Panic"}

balance_of(map, a, d) == unwrap_or_default(may_load(map, <<a, d>>))

Init ==
    /\ State = None
    /\ BALANCES = << >>
    /\ CONTRACT = None
    /\ res = NoCall
    /\ nOps = 0
    /\ deposited = [d \in Denoms |-> 0]
    /\ withdrawn = [d \in Denoms |-> 0]
    /\ credits = [k \in Keys |-> 0]
    /\ debits = [k \in Keys |-> 0]

\* A panic unwinds out of the entry point: nothing is called after it.
Running == res.status # "Panic"

\* ----------------------------------------------------------- instantiate
\* mutant: every value of the u8 is accepted
invalid_fees_u8(fees) == fees > 255
\* mutant: the boundary 100 is rejected too
invalid_fees_strict(fees) == fees >= 100
\* contract.rs:25  if msg.fees > 100
invalid_fees(fees) == fees > 100

Instantiate(sender, fees) ==
    /\ Running /\ nOps < MaxOps
    /\ nOps' = nOps + 1
    /\ IF invalid_fees(fees)
       THEN /\ res' = [NoCall EXCEPT !.op = "instantiate", !.sender = sender,
                          !.status = "Err", !.error = "InvalidFeePercentageError",
                          !.fees = fees]
            /\ UNCHANGED <<State, CONTRACT>>
       ELSE /\ CONTRACT' = Some("crates.io:transfer-contract")
            /\ State' = Some([owner |-> sender, fees |-> fees])
            /\ res' = [NoCall EXCEPT !.op = "instantiate", !.sender = sender,
                          !.status = IF fees > 127 THEN "Panic" ELSE "Ok",
                          !.fees = fees]
    /\ UNCHANGED <<BALANCES, ghost>>

\* ---------------------------------------------------------- execute::send
\* mutant: the owner is given the share of the recipients
owner_fees_remainder(amount, fees) == multiply_ratio(amount, 100 - fees, 100)
\* contract.rs:85  fee of the owner for one coin
owner_fees(amount, fees) == multiply_ratio(amount, fees, 100)
\* mutant: the half of account1 is rounded up
split_amount_up(amount, fees) ==
    shr(amount - unwrap_or_default(owner_fees(amount, fees)) + 1, 1)
\* contract.rs:95-96  half of what is left, rounded down, for account1
split_amount(amount, fees) ==
    shr(amount - unwrap_or_default(owner_fees(amount, fees)), 1)
\* mutant: account2 is given the same rounded-down half
left_over_half(amount, fees) == split_amount(amount, fees)
\* contract.rs:97  the rest, for account2
left_over(amount, fees) ==
    (amount - unwrap_or_default(owner_fees(amount, fees))) - split_amount(amount, fees)

\* A handler run: the storage as written so far, whether it is still
\* running ("Ok") or has panicked, and the credits it has applied.
Run(map) == [store |-> map, status |-> "Ok", log |-> << >>]

\* mutant: the credit replaces the stored balance
credit_overwrite(run, key, amount) ==
    IF run.status # "Ok" THEN run
    ELSE [run EXCEPT !.store = save(@, key, amount),
                     !.log = Append(@, [key |-> key, amount |-> amount])]

\* BALANCES.update(key, |b| Ok(b.unwrap_or_default() + amount)): Uint128's +
\* panics on overflow, before anything is saved for this key.
credit(run, key, amount) ==
    IF run.status # "Ok" THEN run
    ELSE LET sum == checked_add(unwrap_or_default(may_load(run.store, key)), amount)
         IN  IF sum = None
             THEN [run EXCEPT !.status = "Panic"]
             ELSE [run EXCEPT !.store = save(@, key, sum[1]),
                              !.log = Append(@, [key |-> key, amount |-> amount])]

\* mutant: the three credits of a coin are computed from the balances read
\* before the coin, so a later credit to the same key replaces an earlier one
send_coin_stale(run, state, address1, address2, coin) ==
    IF run.status # "Ok" THEN run
    ELSE IF owner_fees(coin.amount, state.fees) = None
    THEN [run EXCEPT !.status = "Panic"]
    ELSE LET stale(r, key, amount) ==
                 LET sum == checked_add(unwrap_or_default(may_load(run.store, key)), amount)
                 IN  IF r.status # "Ok" THEN r
                     ELSE IF sum = None THEN [r EXCEPT !.status = "Panic"]
                     ELSE [r EXCEPT !.store = save(@, key, sum[1]),
                                    !.log = Append(@, [key |-> key, amount |-> amount])]
         IN  stale(stale(stale(run, <<state.owner, coin.denom>>,
                               owner_fees(coin.amount, state.fees)[1]),
                         <<address1, coin.denom>>, split_amount(coin.amount, state.fees)),
                   <<address2, coin.denom>>, left_over(coin.amount, state.fees))

\* contract.rs:84-111  the body of the loop, for one coin
send_coin(run, state, address1, address2, coin) ==
    IF run.status # "Ok" THEN run
    ELSE IF owner_fees(coin.amount, state.fees) = None
    THEN [run EXCEPT !.status = "Panic"]
    ELSE LET fee == owner_fees(coin.amount, state.fees)[1]
             r1 == credit(run, <<state.owner, coin.denom>>, fee)
         IN  IF checked_sub(coin.amount, fee) = None
             THEN [r1 EXCEPT !.status = "Panic"]
             ELSE credit(credit(r1, <<address1, coin.denom>>,
                                split_amount(coin.amount, state.fees)),
                         <<address2, coin.denom>>,
                         left_over(coin.amount, state.fees))

\* mutant: a call that carries no coin is refused
RECURSIVE send_loop_no_funds_error(_, _, _, _, _)
send_loop_no_funds_error(run, state, address1, address2, funds) ==
    IF funds = << >> THEN [run EXCEPT !.status = "Err"]
    ELSE IF Len(funds) = 1
    THEN send_coin(run, state, address1, address2, Head(funds))
    ELSE send_loop_no_funds_error(send_coin(run, state, address1, address2, Head(funds)),
                                  state, address1, address2, Tail(funds))

\* contract.rs:83  for coin in info.funds.iter()
RECURSIVE send_loop(_, _, _, _, _)
send_loop(run, state, address1, address2, funds) ==
    IF funds = << >> \/ run.status # "Ok" THEN run
    ELSE send_loop(send_coin(run, state, address1, address2, Head(funds)),
                   state, address1, address2, Tail(funds))

RECURSIVE SumLog(_, _)
SumLog(log, key) ==
    IF log = << >> THEN 0
    ELSE (IF Head(log).key = key THEN Head(log).amount ELSE 0) + SumLog(Tail(log), key)

RECURSIVE SumFunds(_, _)
SumFunds(funds, d) ==
    IF funds = << >> THEN 0
    ELSE (IF Head(funds).denom = d THEN Head(funds).amount ELSE 0) + SumFunds(Tail(funds), d)

\* mutant: a storage without configuration is read as one without fee,
\* owned by the caller, and the coins are credited
Send_default_config(sender, account1, account2, funds) ==
    /\ Running /\ nOps < MaxOps
    /\ nOps' = nOps + 1
    /\ LET call == [NoCall EXCEPT !.op = "send", !.sender = sender,
                       !.account1 = account1, !.account2 = account2, !.funds = funds]
           state == IF State = None THEN [owner |-> sender, fees |-> 0] ELSE State[1]
       IN  IF ~addr_validate(account1) \/ ~addr_validate(account2)
           THEN /\ res' = [call EXCEPT !.status = "Err", !.error = "GenericErr"]
                /\ UNCHANGED <<BALANCES, ghost>>
           ELSE \E run \in {send_loop(Run(BALANCES), state, account1, account2, funds)} :
                    /\ BALANCES' = run.store
                    /\ res' = [call EXCEPT !.status = run.status]
                    /\ credits' = [k \in Keys |-> credits[k] + SumLog(run.log, k)]
                    /\ deposited' = IF run.status = "Ok"
                                    THEN [d \in Denoms |-> deposited[d] + SumFunds(funds, d)]
                                    ELSE deposited
                    /\ UNCHANGED <<withdrawn, debits>>
    /\ UNCHANGED <<State, CONTRACT>>

Send(sender, account1, account2, funds) ==
    /\ Running /\ nOps < MaxOps
    /\ nOps' = nOps + 1
    /\ LET call == [NoCall EXCEPT !.op = "send", !.sender = sender,
                       !.account1 = account1, !.account2 = account2, !.funds = funds]
       IN  IF ~addr_validate(account1) \/ ~addr_validate(account2)
           THEN /\ res' = [call EXCEPT !.status = "Err", !.error = "GenericErr"]
                /\ UNCHANGED <<BALANCES, ghost>>
           ELSE IF State = None
           THEN /\ res' = [call EXCEPT !.status = "Err", !.error = "NotFound"]
                /\ UNCHANGED <<BALANCES, ghost>>
           ELSE \E run \in {send_loop(Run(BALANCES), State[1], account1, account2, funds)} :
                    /\ BALANCES' = run.store
                    /\ res' = [call EXCEPT !.status = run.status]
                    /\ credits' = [k \in Keys |-> credits[k] + SumLog(run.log, k)]
                    /\ deposited' = IF run.status = "Ok"
                                    THEN [d \in Denoms |-> deposited[d] + SumFunds(funds, d)]
                                    ELSE deposited
                    /\ UNCHANGED <<withdrawn, debits>>
    /\ UNCHANGED <<State, CONTRACT>>

\* ------------------------------------------------------ execute::withdraw
\* mutant: the sufficiency check lets every amount through
insufficient_never(amount, balance) == FALSE
\* mutant: a withdrawal of the whole balance is refused
insufficient_strict(amount, balance) == amount >= balance
\* contract.rs:133  if amount > balance
insufficient(amount, balance) == amount > balance

\* mutant: the two fields of the error are swapped
insufficient_error_swapped(balance, amount) ==
    [error |-> "InsufficientBalanceError", balance |-> amount, requested |-> balance]
\* contract.rs:134-137
insufficient_error(balance, amount) ==
    [error |-> "InsufficientBalanceError", balance |-> balance, requested |-> amount]

\* mutant: the amount withdrawn is what is stored
debit_keeps_amount(balance, amount) ==
    IF checked_sub(balance, amount) = None THEN None ELSE Some(amount)
\* contract.rs:144  balance.unwrap_or_default().checked_sub(amount)
debit(balance, amount) == checked_sub(balance, amount)

\* mutant: the transfer carries the balance read at the top of withdraw
bank_send_balance(sender, balance, amount, denom) ==
    [to_address |-> sender, denom |-> denom, amount |-> balance]
\* contract.rs:149-152  BankMsg::Send { to_address, amount: coins(amount, denom) },
\* with the variables in scope there
bank_send(sender, balance, amount, denom) ==
    [to_address |-> sender, denom |-> denom, amount |-> amount]

\* What withdraw returns and the storage it leaves.
withdraw(map, sender, amount, denom) ==
    LET balance == unwrap_or_default(may_load(map, <<sender, denom>>))
        stored == unwrap_or_default(may_load(map, <<sender, denom>>))
        out == [store |-> map, status |-> "Ok", error |-> "", balance |-> 0,
                requested |-> 0, messages |-> << >>]
    IN  IF insufficient(amount, balance)
        THEN [out EXCEPT !.status = "Err",
                         !.error = insufficient_error(balance, amount).error,
                         !.balance = insufficient_error(balance, amount).balance,
                         !.requested = insufficient_error(balance, amount).requested]
        ELSE IF debit(stored, amount) = None
        THEN [out EXCEPT !.status = "Err", !.error = "Overflow"]
        ELSE [out EXCEPT
                !.store = save(map, <<sender, denom>>, debit(stored, amount)[1]),
                !.messages = <<bank_send(sender, balance, amount, denom)>>]

\* The ghost counters of a withdrawal that returned `out`.
Withdrawn(out, sender, amount, denom) ==
    /\ withdrawn' = IF out.messages = << >> THEN withdrawn
                    ELSE [withdrawn EXCEPT ![out.messages[1].denom] = @ + out.messages[1].amount]
    /\ debits' = IF out.status = "Ok"
                 THEN [debits EXCEPT ![<<sender, denom>>] = @ + amount]
                 ELSE debits
    /\ UNCHANGED <<deposited, credits>>

Withdraw(sender, amount, denom) ==
    /\ Running /\ nOps < MaxOps
    /\ nOps' = nOps + 1
    /\ \E out \in {withdraw(BALANCES, sender, amount, denom)} :
           /\ BALANCES' = out.store
           /\ res' = [NoCall EXCEPT !.op = "withdraw", !.sender = sender,
                         !.amount = amount, !.denom = denom,
                         !.status = out.status, !.error = out.error,
                         !.balance = out.balance, !.requested = out.requested,
                         !.messages = out.messages]
           /\ Withdrawn(out, sender, amount, denom)
    /\ UNCHANGED <<State, CONTRACT>>

\* contract.rs:159-169
WithdrawAll(sender, denom) ==
    /\ Running /\ nOps < MaxOps
    /\ nOps' = nOps + 1
    /\ \E balance \in {unwrap_or_default(may_load(BALANCES, <<sender, denom>>))} :
       \E out \in {withdraw(BALANCES, sender, balance, denom)} :
           /\ BALANCES' = out.store
           /\ res' = [NoCall EXCEPT !.op = "withdraw_all", !.sender = sender,
                         !.amount = balance, !.denom = denom,
                         !.status = out.status, !.error = out.error,
                         !.balance = out.balance, !.requested = out.requested,
                         !.messages = out.messages]
           /\ Withdrawn(out, sender, balance, denom)
    /\ UNCHANGED <<State, CONTRACT>>

\* ------------------------------------------------------------------ query
GetOwner ==
    /\ Running /\ nOps < MaxOps
    /\ nOps' = nOps + 1
    /\ res' = IF State = None
              THEN [NoCall EXCEPT !.op = "get_owner", !.status = "Err", !.error = "NotFound"]
              ELSE [NoCall EXCEPT !.op = "get_owner", !.owner = State[1].owner]
    /\ UNCHANGED <<State, BALANCES, CONTRACT, ghost>>

GetFees ==
    /\ Running /\ nOps < MaxOps
    /\ nOps' = nOps + 1
    /\ res' = IF State = None
              THEN [NoCall EXCEPT !.op = "get_fees", !.status = "Err", !.error = "NotFound"]
              ELSE [NoCall EXCEPT !.op = "get_fees", !.value = State[1].fees]
    /\ UNCHANGED <<State, BALANCES, CONTRACT, ghost>>

\* mutant: the balance is read with load, which fails on a key without entry
GetBalance_load(account, denom) ==
    /\ Running /\ nOps < MaxOps
    /\ nOps' = nOps + 1
    /\ res' = IF ~addr_validate(account) \/ may_load(BALANCES, <<account, denom>>) = None
              THEN [NoCall EXCEPT !.op = "get_balance", !.account1 = account,
                       !.denom = denom, !.status = "Err", !.error = "NotFound"]
              ELSE [NoCall EXCEPT !.op = "get_balance", !.account1 = account,
                       !.denom = denom, !.value = BALANCES[<<account, denom>>]]
    /\ UNCHANGED <<State, BALANCES, CONTRACT, ghost>>

GetBalance(account, denom) ==
    /\ Running /\ nOps < MaxOps
    /\ nOps' = nOps + 1
    /\ res' = IF ~addr_validate(account)
              THEN [NoCall EXCEPT !.op = "get_balance", !.account1 = account,
                       !.denom = denom, !.status = "Err", !.error = "GenericErr"]
              ELSE [NoCall EXCEPT !.op = "get_balance", !.account1 = account,
                       !.denom = denom,
                       !.value = unwrap_or_default(may_load(BALANCES, <<account, denom>>))]
    /\ UNCHANGED <<State, BALANCES, CONTRACT, ghost>>

Next ==
    \/ \E s \in InstantiateSenders, f \in FeeChoices : Instantiate(s, f)
    \/ \E s \in SendSenders, a1 \in Addrs, a2 \in Addrs, f \in FundsChoices : Send(s, a1, a2, f)
    \/ \E s \in Addrs, a \in WithdrawAmounts, d \in Denoms : Withdraw(s, a, d)
    \/ \E s \in Addrs, d \in Denoms : WithdrawAll(s, d)
    \/ GetOwner
    \/ GetFees
    \/ \E a \in Addrs, d \in Denoms : GetBalance(a, d)

Spec == Init /\ [][Next]_vars

\* ----------------------------------------------- one coin, every amount
\* The loop body of send on every amount of the type and every fee that
\* instantiate accepts: a storage just instantiated, then one Send with one coin.
InitSplit ==
    /\ \E o \in InstantiateSenders, f \in 0..100 : State = Some([owner |-> o, fees |-> f])
    /\ BALANCES = << >>
    /\ CONTRACT = Some("crates.io:transfer-contract")
    /\ res = NoCall
    /\ nOps = 0
    /\ deposited = [d \in Denoms |-> 0]
    /\ withdrawn = [d \in Denoms |-> 0]
    /\ credits = [k \in Keys |-> 0]
    /\ debits = [k \in Keys |-> 0]

NextSplit ==
    /\ nOps < 1
    /\ \E s \in SendSenders, a1 \in Addrs, a2 \in Addrs, a \in 0..UintMax :
           Send(s, a1, a2, <<Coin("usei", a)>>)

SplitSpec == InitSplit /\ [][NextSplit]_vars

\* --------------------------------------------- instantiate, every u8 fee
\* instantiate with every value of msg.fees, followed by the two queries of
\* the State.
NextInstantiate ==
    /\ nOps < 2
    /\ \/ \E s \in InstantiateSenders, f \in 0..255 : Instantiate(s, f)
       \/ GetOwner
       \/ GetFees

InstantiateSpec == Init /\ [][NextInstantiate]_vars

\* ------------------------------------------- a sequence of withdrawals
\* The storage of tests::withdraw_multiple before its first withdrawal:
\* instantiated by creator, then one Send of one usei coin to account1 and
\* account2, with every amount of the type. nOps counts the calls after that.
WithdrawFees == {0, 10}
WithdrawSeqAmounts == (0..4) \cup {UintMax}

InitWithdraw ==
    \E f \in WithdrawFees, a \in 0..UintMax :
        LET state == [owner |-> "creator", fees |-> f]
            funds == <<Coin("usei", a)>>
            run == send_loop(Run(<< >>), state, "account1", "account2", funds)
        IN  /\ State = Some(state)
            /\ BALANCES = run.store
            /\ CONTRACT = Some("crates.io:transfer-contract")
            /\ res = [NoCall EXCEPT !.op = "send", !.sender = "account2",
                         !.account1 = "account1", !.account2 = "account2",
                         !.funds = funds, !.status = run.status]
            /\ nOps = 0
            /\ deposited = [d \in Denoms |-> SumFunds(funds, d)]
            /\ withdrawn = [d \in Denoms |-> 0]
            /\ credits = [k \in Keys |-> SumLog(run.log, k)]
            /\ debits = [k \in Keys |-> 0]

NextWithdraw ==
    \E s \in {"account1", "account2"}, a \in WithdrawSeqAmounts :
        Withdraw(s, a, "usei")

WithdrawSpec == InitWithdraw /\ [][NextWithdraw]_vars

\* --------------------------------------------------- a sequence of sends
\* From the same storage (instantiated, one coin already split between
\* account1 and account2), two more Sends with any recipients and funds.
NextCommute ==
    /\ nOps < 2
    /\ \E s \in SendSenders, a1 \in Addrs, a2 \in Addrs, f \in FundsChoices :
           Send(s, a1, a2, f)

CommuteSpec == InitWithdraw /\ [][NextCommute]_vars

\* ===================================================================
\*                             Properties
\* ===================================================================
RECURSIVE SumOver(_, _, _)
\* sum over the accounts in S of their balance in d
SumOver(map, S, d) ==
    IF S = {} THEN 0
    ELSE LET a == CHOOSE x \in S : TRUE
         IN  balance_of(map, a, d) + SumOver(map, S \ {a}, d)
TotalBalance(map, d) == SumOver(map, Addrs, d)

RECURSIVE SumKeys(_, _)
SumKeys(f, S) ==
    IF S = {} THEN 0
    ELSE LET k == CHOOSE x \in S : TRUE IN f[k] + SumKeys(f, S \ {k})

\* the entries other than key are the same in both maps
SameExcept(m1, m2, key) ==
    \A k \in Keys \ {key} : may_load(m1, k) = may_load(m2, k)

IsWithdrawal(r) == r.op \in {"withdraw", "withdraw_all"}

\* C1: for each denomination the balances of all accounts add up to what the
\* successful Sends deposited minus what the emitted transfers carry.
C1_Conservation ==
    \A d \in Denoms : TotalBalance(BALANCES, d) = deposited[d] - withdrawn[d]

\* C2: one coin of amount A under any fee in 0..100: the Send succeeds and
\* the three credits add up to A, and so does what the storage then holds.
C2_PairConservation ==
    res.op = "send" =>
        /\ res.status = "Ok"
        /\ SumKeys(credits, Keys) = res.funds[1].amount
        /\ TotalBalance(BALANCES, res.funds[1].denom) = res.funds[1].amount

C2_Witness ==
    /\ res.op = "send" /\ res.status = "Ok"
    /\ res.funds[1].amount = UintMax
    /\ State[1].fees = 33
    /\ Cardinality({State[1].owner, res.account1, res.account2}) = 3
    /\ balance_of(BALANCES, res.account2, "usei") > balance_of(BALANCES, res.account1, "usei")

\* C3: every balance is the credits applied to its key minus the debits
\* applied to it, and is never negative (so credits accumulate).
C3_BalanceIsCreditsMinusDebits ==
    \A k \in Keys :
        /\ balance_of(BALANCES, k[1], k[2]) = credits[k] - debits[k]
        /\ balance_of(BALANCES, k[1], k[2]) >= 0

\* a second Send of 10 at 10 percent has brought account1 from 4 to 8
C3_Witness ==
    /\ nOps = 3 /\ res.op = "send" /\ res.status = "Ok"
    /\ res.funds = <<Coin("usei", 10)>> /\ res.account1 = "account1"
    /\ State # None /\ State[1].fees = 10 /\ State[1].owner = "creator"
    /\ balance_of(BALANCES, "account1", "usei") = 8

\* C4: a Withdraw of no more than the caller's balance succeeds, lowers that
\* balance by exactly the amount and changes no other entry nor the State.
C4_WithdrawDebitsCallerOnly ==
    [][ (res'.op = "withdraw"
           /\ res'.amount <= balance_of(BALANCES, res'.sender, res'.denom))
        => /\ res'.status = "Ok"
           /\ balance_of(BALANCES', res'.sender, res'.denom)
                = balance_of(BALANCES, res'.sender, res'.denom) - res'.amount
           /\ SameExcept(BALANCES, BALANCES', <<res'.sender, res'.denom>>)
           /\ State' = State ]_vars

\* a partial withdrawal while another account also holds a balance
C4_Witness ==
    /\ res.op = "withdraw" /\ res.status = "Ok" /\ res.amount > 0
    /\ balance_of(BALANCES, res.sender, res.denom) > 0
    /\ \E a \in Addrs \ {res.sender} : balance_of(BALANCES, a, res.denom) > 0

\* C5: a Withdraw of more than the caller's balance fails with
\* InsufficientBalanceError{balance, requested}, writes nothing, emits nothing.
C5_WithdrawInsufficient ==
    [][ (res'.op = "withdraw"
           /\ res'.amount > balance_of(BALANCES, res'.sender, res'.denom))
        => /\ res'.status = "Err"
           /\ res'.error = "InsufficientBalanceError"
           /\ res'.balance = balance_of(BALANCES, res'.sender, res'.denom)
           /\ res'.requested = res'.amount
           /\ BALANCES' = BALANCES
           /\ res'.messages = << >> ]_vars

C5_Witness ==
    /\ res.op = "withdraw" /\ res.error = "InsufficientBalanceError"
    /\ res.balance > 0 /\ res.requested > res.balance
    /\ balance_of(BALANCES, res.sender, res.denom) = res.balance

\* C6: a withdrawal that succeeds emits exactly one BankMsg::Send, to the
\* caller, in the requested denom, for exactly the amount debited; every
\* other call, and every failed withdrawal, emits none.
C6_OneTransferPerWithdrawal ==
    [][ IF IsWithdrawal(res') /\ res'.status = "Ok"
        THEN res'.messages =
               <<[to_address |-> res'.sender, denom |-> res'.denom,
                  amount |-> balance_of(BALANCES, res'.sender, res'.denom)
                             - balance_of(BALANCES', res'.sender, res'.denom)]>>
        ELSE res'.messages = << >> ]_vars

C6_Witness ==
    /\ IsWithdrawal(res) /\ res.status = "Ok"
    /\ Len(res.messages) = 1 /\ res.messages[1].amount > 0
    /\ balance_of(BALANCES, res.sender, res.denom) > 0

\* C7: a call that does not return Ok leaves the storage as it was.
C7_FailedCallChangesNothing ==
    [][ res'.status # "Ok"
        => BALANCES' = BALANCES /\ State' = State /\ CONTRACT' = CONTRACT ]_vars

\* C8: once the State is stored, no call changes or removes it.
C8_ConfigurationNeverChanges ==
    [][ State # None => State' = State ]_vars

C10_WithdrawAllEmptiesCaller ==
    [][ res'.op = "withdraw_all"
        => /\ res'.status = "Ok"
           /\ balance_of(BALANCES', res'.sender, res'.denom) = 0
           /\ Len(res'.messages) = 1
           /\ res'.messages[1].amount = balance_of(BALANCES, res'.sender, res'.denom)
           /\ res'.messages[1].to_address = res'.sender
           /\ res'.messages[1].denom = res'.denom
           /\ SameExcept(BALANCES, BALANCES', <<res'.sender, res'.denom>>) ]_vars

C10_Witness ==
    /\ res.op = "withdraw_all" /\ res.status = "Ok"
    /\ res.messages[1].amount > 0
    /\ balance_of(BALANCES, res.sender, res.denom) = 0
    /\ \E a \in Addrs \ {res.sender} : balance_of(BALANCES, a, res.denom) > 0

OneCoinSend ==
    /\ res.op = "send" /\ res.status = "Ok" /\ Len(res.funds) = 1
    /\ Cardinality({State[1].owner, res.account1, res.account2}) = 3
FeeShare == balance_of(BALANCES, State[1].owner, "usei")
R1Share == balance_of(BALANCES, res.account1, "usei")
R2Share == balance_of(BALANCES, res.account2, "usei")

\* C12: the owner is credited floor(A * fees / 100), the product taken at
\* full width: fee * 100 <= A * fees < (fee + 1) * 100.
C12_FeeIsFloorOfProduct ==
    OneCoinSend =>
        /\ FeeShare * 100 <= res.funds[1].amount * State[1].fees
        /\ res.funds[1].amount * State[1].fees < (FeeShare + 1) * 100
        /\ credits[<<State[1].owner, "usei">>] = FeeShare

\* the product exceeds the amount type and the division truncates
C12_Witness ==
    /\ OneCoinSend
    /\ res.funds[1].amount = UintMax
    /\ res.funds[1].amount * State[1].fees > UintMax
    /\ FeeShare * 100 < res.funds[1].amount * State[1].fees
    /\ FeeShare > 0

\* C13: for one amount the owner's credit does not decrease as the fee grows:
\* no smaller fee percentage yields more than what was credited, a larger one
\* never less; fee 0 credits nothing and fee 100 credits the whole amount.
C13_FeeMonotoneInPercent ==
    OneCoinSend =>
        /\ \A p \in 0..100 :
             /\ p <= State[1].fees =>
                  unwrap_or_default(owner_fees(res.funds[1].amount, p)) <= FeeShare
             /\ p >= State[1].fees =>
                  unwrap_or_default(owner_fees(res.funds[1].amount, p)) >= FeeShare
        /\ State[1].fees = 0 => FeeShare = 0
        /\ State[1].fees = 100 => FeeShare = res.funds[1].amount

\* a fee strictly between the ends that credits strictly between 0 and A
C13_Witness ==
    /\ OneCoinSend
    /\ State[1].fees = 50 /\ res.funds[1].amount = UintMax
    /\ FeeShare > unwrap_or_default(owner_fees(UintMax, 10))
    /\ FeeShare < unwrap_or_default(owner_fees(UintMax, 90))

C15_OverflowIsReturnedAsError ==
    [][ (res'.op = "send" /\ res'.status # "Ok" /\ State # None)
        => res'.status = "Err" /\ res'.error = "Overflow" ]_vars

\* What one Send credits to a key, computed share by share and role by role:
\* the fee when the key is the owner's, the rounded-down half when it is
\* account1's, the rest when it is account2's, summed over the coins.
RECURSIVE ExpectedCredit(_, _, _, _, _, _)
ExpectedCredit(funds, fees, owner, address1, address2, key) ==
    IF funds = << >> THEN 0
    ELSE LET coin == Head(funds)
             fee == (coin.amount * fees) \div 100
             half == (coin.amount - fee) \div 2
             rest == (coin.amount - fee) - half
             share(account, amount) ==
                 IF key = <<account, coin.denom>> THEN amount ELSE 0
         IN  share(owner, fee) + share(address1, half) + share(address2, rest)
               + ExpectedCredit(Tail(funds), fees, owner, address1, address2, key)

\* C16: in a successful Send every credit is applied on its own and all of
\* them accumulate: each balance grows by the sum of the shares addressed to
\* it, also when the owner and the recipients coincide or a denomination is
\* listed more than once.
C16_CreditsAccumulate ==
    [][ (res'.op = "send" /\ res'.status = "Ok" /\ State # None)
        => \A k \in Keys :
              balance_of(BALANCES', k[1], k[2])
                = balance_of(BALANCES, k[1], k[2])
                  + ExpectedCredit(res'.funds, State[1].fees, State[1].owner,
                                   res'.account1, res'.account2, k) ]_vars

C16_Witness ==
    /\ res.op = "send" /\ res.status = "Ok" /\ State # None
    /\ State[1].fees = 10
    /\ res.account1 = State[1].owner /\ res.account2 = State[1].owner
    /\ res.funds = <<Coin("usei", 10)>>
    /\ balance_of(BALANCES, State[1].owner, "usei") = 10
    /\ credits[<<State[1].owner, "usei">>] = 10

\* C17: a Send that carries no coin succeeds on an instantiated contract with
\* valid addresses, and leaves every balance, every entry and the
\* configuration as they were.
C17_EmptyDepositChangesNothing ==
    [][ (res'.op = "send" /\ res'.funds = << >> /\ State # None)
        => /\ res'.status = "Ok"
           /\ BALANCES' = BALANCES
           /\ State' = State /\ CONTRACT' = CONTRACT
           /\ credits' = credits /\ deposited' = deposited ]_vars

C17_Witness ==
    /\ res.op = "send" /\ res.funds = << >> /\ res.status = "Ok"
    /\ State # None
    /\ \E k \in DOMAIN BALANCES : BALANCES[k] > 0
    /\ \E d \in Denoms : deposited[d] > 0

IsQuery(op) == op \in {"get_owner", "get_fees", "get_balance"}

\* C18: GetBalance answers the stored amount of the key, and 0 for a key
\* that has no entry, without failing; none of the three queries changes the
\* configuration or any balance entry.
C18_QueriesReadOnly ==
    [][ /\ res'.op = "get_balance"
           => /\ res'.status = "Ok"
              /\ res'.value = IF <<res'.account1, res'.denom>> \in DOMAIN BALANCES
                              THEN BALANCES[<<res'.account1, res'.denom>>]
                              ELSE 0
        /\ IsQuery(res'.op)
           => State' = State /\ BALANCES' = BALANCES /\ CONTRACT' = CONTRACT ]_vars

C18_Witness ==
    /\ res.op = "get_balance" /\ res.status = "Ok" /\ res.value = 0
    /\ <<res.account1, res.denom>> \notin DOMAIN BALANCES
    /\ \E k \in DOMAIN BALANCES : BALANCES[k] > 0 /\ k[2] = res.denom

\* C19: in a sequence of Withdraw calls on one key with no credit in between
\* (credits[k] is the starting balance, debits[k] the total of the successful
\* withdrawals so far), a call succeeds exactly when the running total with
\* its own amount stays within the starting balance; a success answers with
\* one transfer of its own amount to the caller and leaves the starting
\* balance minus the total withdrawn; a refusal leaves the ledger as it was.
C19_WithdrawSequence ==
    [][ res'.op = "withdraw"
        => LET k == <<res'.sender, res'.denom>>
           IN  /\ credits' = credits
               /\ (res'.status = "Ok") <=> (debits[k] + res'.amount <= credits[k])
               /\ res'.status = "Ok"
                  => /\ Len(res'.messages) = 1
                     /\ res'.messages[1].to_address = res'.sender
                     /\ res'.messages[1].amount = res'.amount
                     /\ res'.messages[1].denom = res'.denom
                     /\ debits'[k] = debits[k] + res'.amount
                     /\ balance_of(BALANCES', k[1], k[2]) = credits[k] - debits'[k]
               /\ res'.status # "Ok"
                  => /\ res'.messages = << >>
                     /\ BALANCES' = BALANCES /\ debits' = debits ]_vars

\* the third call of a sequence is refused after two successes that left 1
C19_Witness ==
    /\ res.op = "withdraw" /\ res.status = "Err" /\ res.amount = 2
    /\ nOps = 3
    /\ LET k == <<res.sender, res.denom>>
       IN  /\ debits[k] = 5 /\ credits[k] = 6
           /\ withdrawn[res.denom] = 5
           /\ balance_of(BALANCES, k[1], k[2]) = 1

\* the denominations of the coins of a call
DenomsOf(funds) == {funds[i].denom : i \in 1..Len(funds)}

\* C20: a successful Send changes only entries of the owner, account1 and
\* account2 in the denominations of its coins, decreases no balance, leaves
\* every other entry (the sender's too, unless the sender has one of those
\* roles) and the configuration as they were.
C20_SendFrame ==
    [][ (res'.op = "send" /\ res'.status = "Ok" /\ State # None)
        => /\ \A k \in Keys :
                 (k[1] \notin {State[1].owner, res'.account1, res'.account2}
                    \/ k[2] \notin DenomsOf(res'.funds))
                 => may_load(BALANCES', k) = may_load(BALANCES, k)
           /\ \A k \in Keys :
                 balance_of(BALANCES', k[1], k[2]) >= balance_of(BALANCES, k[1], k[2])
           /\ DOMAIN BALANCES \subseteq DOMAIN BALANCES'
           /\ State' = State /\ CONTRACT' = CONTRACT ]_vars

\* the sender holds a balance and is neither the owner nor a recipient; the
\* call carries one denomination and the ledger holds entries in the other
C20_Witness ==
    /\ res.op = "send" /\ res.status = "Ok" /\ State # None
    /\ res.sender \notin {State[1].owner, res.account1, res.account2}
    /\ DenomsOf(res.funds) = {"usei"}
    /\ balance_of(BALANCES, res.sender, "usei") > 0
    /\ \E k \in DOMAIN BALANCES : k[2] = "wei" /\ BALANCES[k] > 0
    /\ balance_of(BALANCES, res.account1, "usei") > 0

\* C21: a Send on a storage without configuration fails with the store's
\* not-found error before any credit: no entry is created or changed,
\* whatever coins the call carries.
C21_SendBeforeInstantiate ==
    [][ (res'.op = "send" /\ State = None)
        => /\ res'.status = "Err" /\ res'.error = "NotFound"
           /\ BALANCES' = BALANCES
           /\ credits' = credits /\ deposited' = deposited
           /\ State' = None ]_vars

C21_Witness ==
    /\ res.op = "send" /\ res.status = "Err" /\ res.error = "NotFound"
    /\ State = None
    /\ Len(res.funds) = 2
    /\ \A k \in Keys : balance_of(BALANCES, k[1], k[2]) = 0
    /\ \A k \in Keys : credits[k] = 0

IsWithdrawCall(op) == op \in {"withdraw", "withdraw_all"}

\* C22: the checked subtraction of a withdrawal is never reached with an
\* amount above the stored balance: a withdrawal that gets to the debit has
\* amount <= balance, one that does not is refused as insufficient, and no
\* withdrawal fails with the subtraction's overflow error.
C22_DebitNeverUnderflows ==
    [][ IsWithdrawCall(res'.op)
        => LET balance == balance_of(BALANCES, res'.sender, res'.denom)
           IN  /\ res'.error # "Overflow"
               /\ res'.status \in {"Ok", "Err"}
               /\ res'.status = "Ok"
                  => /\ res'.amount <= balance
                     /\ checked_sub(balance, res'.amount) # None
                     /\ balance_of(BALANCES', res'.sender, res'.denom)
                          = balance - res'.amount
               /\ res'.status = "Err"
                  => res'.amount > balance /\ res'.error = "InsufficientBalanceError" ]_vars

\* the boundary: the whole of a positive balance is withdrawn by Withdraw
C22_Witness ==
    /\ res.op = "withdraw" /\ res.status = "Ok" /\ res.amount = 4
    /\ <<res.sender, res.denom>> \in DOMAIN BALANCES
    /\ BALANCES[<<res.sender, res.denom>>] = 0
    /\ credits[<<res.sender, res.denom>>] = 4

\* C23: whenever the configuration exists its fee is at most 100, and so for
\* every amount of a coin the fee is computed, is at most the amount, and
\* the subtraction amount - fee of the loop does not underflow.
C23_FeeAtMostHundred ==
    State # None
    => /\ State[1].fees \in 0..100
       /\ \A amount \in 0..UintMax :
             /\ owner_fees(amount, State[1].fees) # None
             /\ owner_fees(amount, State[1].fees)[1] <= amount
             /\ checked_sub(amount, owner_fees(amount, State[1].fees)[1]) # None

\* the boundary is stored, and a later attempt above it is refused
C23_Witness ==
    /\ State # None /\ State[1].fees = 100
    /\ res.op = "instantiate" /\ res.status = "Err" /\ res.fees = 101
    /\ owner_fees(UintMax, State[1].fees) = Some(UintMax)

\* C24: an entry of BALANCES is created only by a Send that credits its key
\* (the key of the owner, of account1 or of account2 in a denomination of
\* the coins), and no call removes an entry.
C24_EntriesOnlyByCredit ==
    [][ /\ DOMAIN BALANCES \subseteq DOMAIN BALANCES'
        /\ \A k \in (DOMAIN BALANCES') \ (DOMAIN BALANCES) :
              /\ res'.op = "send" /\ State # None
              /\ k[1] \in {State[1].owner, res'.account1, res'.account2}
              /\ k[2] \in DenomsOf(res'.funds) ]_vars

\* The balances before the call recorded in res, when that call is a
\* successful Send: what is stored now less what that Send credited.
BalancesBeforeLastSend ==
    [k \in Keys |->
        balance_of(BALANCES, k[1], k[2])
          - ExpectedCredit(res.funds, State[1].fees, State[1].owner,
                           res.account1, res.account2, k)]

\* C25: two successful Sends made one after the other commute: applied in
\* the other order to the balances the first one started from, both succeed
\* too and every key ends with the same balance.
C25_SendsCommute ==
    [][ (/\ res.op = "send" /\ res.status = "Ok"
         /\ res'.op = "send" /\ res'.status = "Ok"
         /\ State # None)
        => LET first == send_loop(Run(BalancesBeforeLastSend), State[1],
                                  res'.account1, res'.account2, res'.funds)
               second == send_loop(Run(first.store), State[1],
                                   res.account1, res.account2, res.funds)
           IN  /\ first.status = "Ok" /\ second.status = "Ok"
               /\ \A k \in Keys :
                     balance_of(second.store, k[1], k[2])
                       = balance_of(BALANCES', k[1], k[2]) ]_vars

\* two Sends of 7 wei under a fee of 10 on a ledger that holds usei: the
\* account1 of the second was the account2 of the first, so it holds 4 + 3
C25_Witness ==
    /\ res.op = "send" /\ res.status = "Ok" /\ State # None
    /\ State[1].fees = 10
    /\ res.funds = <<Coin("wei", 7)>>
    /\ deposited["wei"] = 14 /\ deposited["usei"] > 0
    /\ Cardinality({State[1].owner, res.account1, res.account2}) = 3
    /\ balance_of(BALANCES, res.account1, "wei") = 7
    /\ balance_of(BALANCES, res.account1, "usei") > 0
====
